---- MODULE Spec2Model ----
(***************************************************************************)
(* The arXiv research-term explainer backend (src/backend/main.py):        *)
(* class MCPClient, its background provider task, the lifespan that owns   *)
(* it, and the streaming agent loop that a request drives.                 *)
(*                                                                         *)
(* A step of the model is the code between two suspension points of the    *)
(* asyncio event loop (an await or a yield), or a part of it.  The shared  *)
(* attributes of the MCPClient singleton are session, server_task and      *)
(* session_ready; everything else is private to one request ("run").       *)
(***************************************************************************)
EXTENDS Integers, Sequences, FiniteSets

(***************************************************************************)
(* Program constants.                                                      *)
(***************************************************************************)
\* max_iterations = 10 in _run_agent_loop
max_iterations == 10
\* asyncio.wait_for(self.session_ready.wait(), timeout=10.0)
StartTimeout == 10

(***************************************************************************)
(* Bounds of the model.                                                    *)
(***************************************************************************)
\* longest content list a stubbed ModelClient response may carry
MaxBlocks == 2
\* number of leading answers of a stub (the model, the provider) that are
\* arbitrary where a specification lets them be; the later ones are plain
\* (PlainShapes, PlainParts)
RichCalls == 1
\* number of stop_mcp_server calls the environment makes
MaxStops == 2

\* the requests the model can run side by side
Runs == {"r1", "r2"}
\* the request text of each run
Term(r) == IF r = "r1" THEN "transformer" ELSE "diffusion"

(***************************************************************************)
(* State.                                                                  *)
(***************************************************************************)
VARIABLES
  \* --- MCPClient attributes (shared by every request) ---
  session,          \* self.session: "None" or "ClientSession"
  server_task,      \* self.server_task: "None" or "Task"
  session_ready,    \* self.session_ready: "None" or "Event"
  \* --- the objects behind them ---
  ready,            \* whether the asyncio.Event made by start_mcp_server is set
  task,             \* where the _run_server task is
  \* --- activations of the lifecycle coroutines ---
  lifespan,         \* position of lifespan(app)
  startPc,          \* position of start_mcp_server
  elapsed,          \* time units start_mcp_server has waited for readiness
  stopPc,           \* position of stop_mcp_server
  stops,            \* the stop_mcp_server calls so far: outcome, and where
                    \* start_mcp_server was when the call was made
  \* --- one request each (functions over Runs) ---
  pc,               \* position of explain_research_term_streaming / _run_agent_loop
  arrival,          \* what the client looked like when the request's stream began
  frames,           \* the SSE frames yielded so far
  messages,         \* the conversation list
  claude_tools,     \* the tool declarations passed to the model
  iteration,        \* number of loop iterations begun (loop index + 1)
  response,         \* response.content of the current model call
  blockIdx,         \* index of the next content block to walk
  assistant_content,
  tool_uses,
  tool_results,
  toolIdx,          \* index of the next tool_use to execute
  calls,            \* the external calls issued so far, in order
  exit,             \* how the run left the loop
  warned,           \* whether "Agent loop reached max iterations" was logged
  richLeft,         \* how many more arbitrary answers the stubs may give
  conn              \* the HTTP exchange: status, whether the API key was there,
                    \* the consumer, whether the generator is held at a yield

clientVars == <<session, server_task, session_ready>>
lifeVars == <<ready, task, lifespan, startPc, elapsed, stopPc, stops>>
loopVars == <<messages, claude_tools, iteration, response, blockIdx,
              assistant_content, tool_uses, tool_results, toolIdx, warned>>
runVars == <<pc, arrival, frames, calls, exit, richLeft, conn, loopVars>>
vars == <<clientVars, lifeVars, runVars>>

(***************************************************************************)
(* SessionManager: start_mcp_server, _run_server, stop_mcp_server and the  *)
(* lifespan that calls them.                                               *)
(***************************************************************************)
\* states of the _run_server task in which it is still running
Running == {"spawning", "handshaking", "holding"}
\* states in which the task has finished (awaiting it returns or raises at once)
Finished == {"failed", "cancelled"}

\* MCPClient.__init__
InitClient ==
  /\ session = "None"
  /\ server_task = "None"
  /\ session_ready = "None"

\* Task.cancel(): a running task is sent CancelledError, a finished one is left alone
CancelNothing(t) == t
Cancel(t) == IF t \in Running THEN "cancelling" ELSE t

\* wait_for(..., timeout=10.0) gives up once the timeout has elapsed
TimedOut(e) == e >= StartTimeout

\* lifespan: "await mcp_client.start_mcp_server()", up to the wait for readiness
start_mcp_server ==
  /\ lifespan = "init"
  /\ lifespan' = "starting"
  /\ session_ready' = "Event"
  /\ ready' = FALSE
  /\ server_task' = "Task"
  /\ task' = "spawning"
  /\ startPc' = "waiting"
  /\ elapsed' = 0
  /\ UNCHANGED <<session, stopPc, stops, runVars>>

\* one time unit passes while start_mcp_server waits
Tick ==
  /\ startPc = "waiting"
  /\ ~ready
  /\ ~TimedOut(elapsed)
  /\ elapsed' = elapsed + 1
  /\ UNCHANGED <<clientVars, ready, task, lifespan, startPc, stopPc, stops, runVars>>

\* readiness was signalled in time: start_mcp_server returns, lifespan yields
start_ready ==
  /\ startPc = "waiting"
  /\ ready
  /\ startPc' = "returned"
  /\ lifespan' = "serving"
  /\ UNCHANGED <<clientVars, ready, task, elapsed, stopPc, stops, runVars>>

\* asyncio.TimeoutError: cancel the task, raise RuntimeError out of lifespan
start_timeout ==
  /\ startPc = "waiting"
  /\ ~ready
  /\ TimedOut(elapsed)
  /\ task' = (IF server_task # "None" THEN Cancel(task) ELSE task)
  /\ startPc' = "raised"
  /\ lifespan' = "failed"
  /\ UNCHANGED <<clientVars, ready, elapsed, stopPc, stops, runVars>>

\* _run_server: stdio_client and ClientSession entered, self.session assigned,
\* session.initialize() awaited
run_server_connect ==
  /\ task = "spawning"
  /\ session' = "ClientSession"
  /\ task' = "handshaking"
  /\ UNCHANGED <<server_task, session_ready, ready, lifespan, startPc, elapsed,
                 stopPc, stops, runVars>>

\* _run_server: initialize() returned, self.session_ready.set(), then the
\* keep-alive loop (set() on a cleared attribute is an AttributeError)
run_server_ready ==
  /\ task = "handshaking"
  /\ IF session_ready = "Event"
       THEN ready' = TRUE /\ task' = "holding"
       ELSE ready' = ready /\ task' = "failed"
  /\ UNCHANGED <<clientVars, lifespan, startPc, elapsed, stopPc, stops, runVars>>

\* _run_server: the subprocess, the handshake or the connection fails; the
\* exception is logged and re-raised, so the task ends with it
run_server_fail ==
  /\ task \in Running
  /\ task' = "failed"
  /\ UNCHANGED <<clientVars, ready, lifespan, startPc, elapsed, stopPc, stops, runVars>>

\* _run_server: CancelledError unwinds the task ("except Exception" lets it pass)
run_server_cancelled ==
  /\ task = "cancelling"
  /\ task' = "cancelled"
  /\ UNCHANGED <<clientVars, ready, lifespan, startPc, elapsed, stopPc, stops, runVars>>

\* stop_mcp_server after "await self.server_task": CancelledError is swallowed
\* and the attributes are cleared; any other exception leaves the coroutine
\* before they are
StopRaises(t) == t = "failed"

\* the end of stop_mcp_server, the awaited task having finished as t; life is
\* where lifespan is while it runs, log the calls of stop_mcp_server with this
\* one last
StopFinish(t, life, log) ==
  /\ stopPc' = "idle"
  /\ IF server_task # "None" /\ StopRaises(t)
       THEN /\ stops' = [log EXCEPT ![Len(log)].outcome = "raised"]
            /\ UNCHANGED <<session, session_ready>>
            /\ lifespan' = (IF life = "stopping" THEN "crashed" ELSE life)
       ELSE /\ stops' = [log EXCEPT ![Len(log)].outcome = "returned"]
            /\ session' = "None"
            /\ session_ready' = "None"
            /\ lifespan' = (IF life = "stopping" THEN "exited" ELSE life)

\* stop_mcp_server, called by lifespan at shutdown or by another owner of the
\* client: cancel the task and await it (a finished task is awaited without
\* suspending)
stop_mcp_server(caller) ==
  /\ stopPc = "idle"
  /\ Len(stops) < MaxStops
  /\ caller = "lifespan" => lifespan = "serving"
  /\ LET t == IF server_task # "None" THEN Cancel(task) ELSE task
         life == IF caller = "lifespan" THEN "stopping" ELSE lifespan
         log == Append(stops, [outcome |-> "pending", start |-> startPc])
     IN  /\ task' = t
         /\ IF server_task # "None" /\ t \notin Finished
              THEN /\ stopPc' = "awaiting"
                   /\ lifespan' = life
                   /\ stops' = log
                   /\ UNCHANGED <<session, session_ready>>
              ELSE StopFinish(t, life, log)
  /\ UNCHANGED <<server_task, ready, startPc, elapsed, runVars>>

\* stop_mcp_server resumes when the awaited task has finished
stop_resume ==
  /\ stopPc = "awaiting"
  /\ task \in Finished
  /\ StopFinish(task, lifespan, stops)
  /\ UNCHANGED <<server_task, ready, task, startPc, elapsed, runVars>>

(***************************************************************************)
(* The collaborators: the tool provider behind the session, the model.     *)
(***************************************************************************)
\* the tools mcp_server.py lists
ToolNames == {"search_papers", "search_with_multiple_keywords"}
McpTools ==
  << [name |-> "search_papers",
      description |-> "Search for papers on arXiv",
      inputSchema |-> "schema:search_papers"],
     [name |-> "search_with_multiple_keywords",
      description |-> "Search for papers containing all keywords",
      inputSchema |-> "schema:search_with_multiple_keywords"] >>

\* a tool name the provider does not list
UnknownTool == "summarize_paper"

\* a content block of a model response; n names the model call (whose
\* conversation it answers, and which call on it), k the position.
\* Ids are the provider's and unique; texts and inputs are opaque.
Kinds == {"text", "thinking"} \cup ToolNames
Block(kind, n, k) ==
  CASE kind = "text" -> [type |-> "text", text |-> <<"text", n, k>>]
    [] kind \in ToolNames \cup {UnknownTool} ->
         [type |-> "tool_use", id |-> <<"toolu", n, k>>, name |-> kind,
          input |-> <<"input", n, k>>]
    [] OTHER -> [type |-> kind]
Shapes == UNION {[1..m -> Kinds] : m \in 0..MaxBlocks}
PlainShapes == {<<"text">>, <<"search_papers">>}
\* answers that ask for a tool the provider does not have
OddShapes == {<<UnknownTool>>, <<"search_papers", UnknownTool>>}
ResponseOf(shape, n) == [k \in 1..Len(shape) |-> Block(shape[k], n, k)]

\* the content parts of a tool result: text parts and parts without text.
\* A text is a sequence of tokens, so that concatenation is \o.
TextPart(s) == [type |-> "text", text |-> s]
ImagePart == [type |-> "image", data |-> "png"]
PlainParts == {<< TextPart(<<"Found">>) >>}
\* call_tool of mcp_server.py ends in "raise ValueError(f"Unknown tool: ...")";
\* when the session hands that back as a result, it is this text
UnknownParts(name) == << TextPart(<<"Unknown tool: ", name>>) >>
RichParts ==
  { <<>>,
    << ImagePart >>,
    << TextPart(<<"Found">>), ImagePart, TextPart(<<"2", "papers">>) >> }

\* whether a request sent over the session can be answered: the provider is
\* up, or still in its handshake (what it does with a request then is its own
\* affair: it may answer or refuse)
ProviderAnswers == task \in {"handshaking", "holding"}

(***************************************************************************)
(* EventStreamAdapter and AgentLoop: explain_research_term_streaming and   *)
(* _run_agent_loop.                                                        *)
(***************************************************************************)
\* f"data: {json.dumps(event)}\n\n"
Sse(event) == [data |-> event]

ErrorFrame(content) == Sse([type |-> "error", content |-> content])
DoneFrame == Sse([type |-> "done"])

\* the events _run_agent_loop yields
TextEvent(b) == [type |-> "text", content |-> b.text]
ToolUseEvent(b) == [type |-> "tool_use", tool_name |-> b.name, tool_input |-> b.input]
ToolResultEvent(tu, text) == [type |-> "tool_result", tool_name |-> tu.name, content |-> text]

\* the block appended to tool_results for one executed tool use
ToolResultBlockByInput(tu, text) == [type |-> "tool_result", tool_use_id |-> tu.input, content |-> text]
ToolResultBlock(tu, text) == [type |-> "tool_result", tool_use_id |-> tu.id, content |-> text]

\* "if not self.session"
SessionMissing(s) == s = "None"

\* the conversion of the provider's tool list to the model's declarations
ClaudeTool(tool) ==
  [name |-> tool.name, description |-> tool.description,
   input_schema |-> tool.inputSchema]
ClaudeToolsReversed(tools) == [i \in 1..Len(tools) |-> ClaudeTool(tools[Len(tools) + 1 - i])]
ClaudeTools(tools) == [i \in 1..Len(tools) |-> ClaudeTool(tools[i])]

\* messages = [{"role": "user", "content": <the template with the term>}]
InitialMessages(text) ==
  << [role |-> "user", content |-> << [type |-> "prompt", term |-> text] >>] >>

\* the term a conversation is about (what the model's answer depends on)
Topic(msgs) == msgs[1].content[1].term

\* the list a run appends to: its own "messages", made by its own call of
\* explain_research_term_streaming
ConversationShared(msgs, r) == msgs["r1"]
Conversation(msgs, r) == msgs[r]

\* "tool_results = []" at the start of the tool loop
KeptToolResults(old) == old
NewToolResults(old) == << >>

\* "for iteration in range(max_iterations)": whether another iteration begins
\* after n of them
InRangeInclusive(n) == n <= max_iterations
InRange(n) == n < max_iterations

\* what the walk over response.content does with one block
YieldedTextOnly(b) == IF b.type = "text" THEN << TextEvent(b) >> ELSE << >>
Yielded(b) ==
  CASE b.type = "text" -> << TextEvent(b) >>
    [] b.type = "tool_use" -> << ToolUseEvent(b) >>
    [] OTHER -> << >>
Kept(b) == b.type \in {"text", "tool_use"}
Recorded(b) == b.type = "tool_use"

\* "if not tool_uses: break"
NeverBreaks(tus) == FALSE
NoToolUse(tus) == tus = << >>

\* "for tool_use in tool_uses": the k-th one executed
ToolUseAtReversed(tus, k) == tus[Len(tus) + 1 - k]
ToolUseAt(tus, k) == tus[k]

\* result_text: the texts of the parts that have one, concatenated in order
ResultTextFirst(parts) ==
  IF parts # << >> /\ "text" \in DOMAIN Head(parts) THEN Head(parts).text ELSE << >>
RECURSIVE ResultText(_)
ResultText(parts) ==
  IF parts = << >> THEN << >>
  ELSE (IF "text" \in DOMAIN Head(parts) THEN Head(parts).text ELSE << >>)
         \o ResultText(Tail(parts))

\* the frames once the except clause has run for exception e
ExceptThenDone(fs, e) ==
  Append(Append(fs, ErrorFrame(<<"Error processing request: ", e>>)), DoneFrame)
ExceptFrames(fs, e) == Append(fs, ErrorFrame(<<"Error processing request: ", e>>))
\* the frames once the loop has ended and the adapter has yielded its marker
EndFramesSilent(fs) == fs
EndFrames(fs) == Append(fs, DoneFrame)
\* "if iteration == max_iterations - 1" (iteration counts from 0 in the code)
AtLastIteration(n) == n - 1 = max_iterations - 1

\* self.session once the except clause has run: the clause logs and yields,
\* it assigns nothing, so the session is left as it was found
SessionDropped(s) == "None"
SessionAfterError(s) == s

\* "except Exception as e": one error frame, and the generator ends
OnExceptionResume(r, e) ==
  /\ frames' = [frames EXCEPT ![r] = ExceptFrames(@, e)]
  /\ pc' = [pc EXCEPT ![r] = "loop"]
  /\ exit' = [exit EXCEPT ![r] = "raised"]
  /\ session' = SessionAfterError(session)
OnException(r, e) ==
  /\ frames' = [frames EXCEPT ![r] = ExceptFrames(@, e)]
  /\ pc' = [pc EXCEPT ![r] = "done"]
  /\ exit' = [exit EXCEPT ![r] = "raised"]
  /\ session' = SessionAfterError(session)

\* the answers the stubs may give to run r's next model call and tool call;
\* where the provider's answers are arbitrary the model may also ask for a
\* tool the provider does not have
ModelShapes(r) ==
  (IF richLeft[r].model > 0 THEN Shapes ELSE PlainShapes)
    \cup (IF richLeft[r].tool > 0 THEN OddShapes ELSE {})
ToolParts(r) == IF richLeft[r].tool > 0 THEN PlainParts \cup RichParts ELSE PlainParts
\* what call_tool hands back for a tool of that name when it does not raise
ProviderPartsLenient(r, name) == ToolParts(r)
ProviderParts(r, name) == IF name \in ToolNames THEN ToolParts(r) ELSE {UnknownParts(name)}
Spend(n) == IF n > 0 THEN n - 1 ELSE 0

\* how many stop_mcp_server calls have ended
StopsEnded == Len(SelectSeq(stops, LAMBDA c : c.outcome # "pending"))

\* the outcome of the latest stop_mcp_server call that has ended, if any
LastStop ==
  LET ended == SelectSeq(stops, LAMBDA c : c.outcome # "pending")
  IN  IF ended = << >> THEN "none" ELSE ended[Len(ended)].outcome

\* the last call of a run has ended: it returned, or it raised
Settle(cs, how) == [cs EXCEPT ![Len(cs)].state = how]

\* the generator is resumed (its consumer asks for the next frame, or the call
\* it awaits has ended) and runs to its next suspension point; it is held at a
\* yield there if the step yielded a frame
Resumed(r) ==
  /\ conn[r].consumer # "gone"
  /\ conn' = [conn EXCEPT ![r].atYield = Len(frames'[r]) > Len(frames[r])]

\* the tool loop is between two calls: "await" has handed back the last one
AtToolLoopOrAwaiting(r) == pc[r] \in {"tools", "call_tool"}
AtToolLoop(r) == pc[r] = "tools"

\* whether the readiness latch of start_mcp_server is there and set
SessionReady == session_ready = "Event" /\ ready

\* the session check, then "await self.session.list_tools()"
stream_begin(r) ==
  /\ pc[r] = "idle"
  /\ arrival' = [arrival EXCEPT ![r] = [ready |-> SessionReady, session |-> session,
                                        stop |-> LastStop, ended |-> StopsEnded]]
  /\ IF SessionMissing(session)
       THEN /\ frames' = [frames EXCEPT ![r] = Append(@, ErrorFrame("MCP server not initialized"))]
            /\ pc' = [pc EXCEPT ![r] = "done"]
            /\ exit' = [exit EXCEPT ![r] = "not_ready"]
            /\ UNCHANGED calls
       ELSE /\ calls' = [calls EXCEPT ![r] = Append(@, [op |-> "list_tools", at |-> Len(frames[r]),
                                                        state |-> "pending"])]
            /\ pc' = [pc EXCEPT ![r] = "list_tools"]
            /\ UNCHANGED <<frames, exit>>
  /\ UNCHANGED <<clientVars, lifeVars, richLeft, loopVars>>
  /\ Resumed(r)

\* list_tools returns (the declarations and the conversation are built) or raises
list_tools_return(r) ==
  /\ pc[r] = "list_tools"
  /\ UNCHANGED arrival
  /\ \/ /\ ProviderAnswers
        /\ claude_tools' = [claude_tools EXCEPT ![r] = ClaudeTools(McpTools)]
        /\ messages' = [messages EXCEPT ![r] = InitialMessages(Term(r))]
        /\ pc' = [pc EXCEPT ![r] = "loop"]
        /\ calls' = [calls EXCEPT ![r] = Settle(@, "returned")]
        /\ UNCHANGED <<session, frames, exit, iteration, response, blockIdx,
                       assistant_content, tool_uses, tool_results, toolIdx, warned>>
     \/ /\ OnException(r, "list_tools")
        /\ calls' = [calls EXCEPT ![r] = Settle(@, "raised")]
        /\ UNCHANGED loopVars
  /\ UNCHANGED <<server_task, session_ready, lifeVars, richLeft>>
  /\ Resumed(r)

\* the top of the loop and "self.anthropic_client.messages.create(...)": the
\* call is synchronous; it returns a response or raises
model_call(r) ==
  /\ pc[r] = "loop"
  /\ UNCHANGED arrival
  /\ InRange(iteration[r])
  /\ iteration' = [iteration EXCEPT ![r] = @ + 1]
  /\ richLeft' = [richLeft EXCEPT ![r].model = Spend(@)]
  /\ \/ /\ \E shape \in ModelShapes(r) :
             response' = [response EXCEPT ![r] =
                            ResponseOf(shape, <<Topic(messages[r]), iteration[r] + 1>>)]
        /\ calls' = [calls EXCEPT ![r] = Append(@, [op |-> "create", at |-> Len(frames[r]),
                                                    state |-> "returned"])]
        /\ blockIdx' = [blockIdx EXCEPT ![r] = 1]
        /\ assistant_content' = [assistant_content EXCEPT ![r] = << >>]
        /\ tool_uses' = [tool_uses EXCEPT ![r] = << >>]
        /\ pc' = [pc EXCEPT ![r] = "walk"]
        /\ UNCHANGED <<session, frames, exit>>
     \/ /\ OnException(r, "create")
        /\ calls' = [calls EXCEPT ![r] = Append(@, [op |-> "create", at |-> Len(frames[r]),
                                                    state |-> "raised"])]
        /\ UNCHANGED <<response, blockIdx, assistant_content, tool_uses>>
  /\ UNCHANGED <<server_task, session_ready, lifeVars, messages, claude_tools, tool_results,
                 toolIdx, warned>>
  /\ Resumed(r)

\* the for loop ends without a break: nothing is raised, nothing is yielded
OnExhaustedSpin(r) ==
  /\ exit' = [exit EXCEPT ![r] = "exhausted"]
  /\ UNCHANGED <<pc, frames>>
OnExhaustedRaise(r) ==
  /\ exit' = [exit EXCEPT ![r] = "exhausted"]
  /\ pc' = [pc EXCEPT ![r] = "done"]
  /\ frames' = [frames EXCEPT ![r] = ExceptFrames(@, "max iterations")]
OnExhausted(r) ==
  /\ exit' = [exit EXCEPT ![r] = "exhausted"]
  /\ pc' = [pc EXCEPT ![r] = "after_loop"]
  /\ UNCHANGED frames

\* range(max_iterations) is exhausted
loop_exhausted(r) ==
  /\ pc[r] = "loop"
  /\ UNCHANGED arrival
  /\ ~InRange(iteration[r])
  /\ OnExhausted(r)
  /\ UNCHANGED <<clientVars, lifeVars, calls, richLeft, loopVars>>
  /\ Resumed(r)

\* "for content_block in response.content": one block
walk_block(r) ==
  /\ pc[r] = "walk"
  /\ UNCHANGED arrival
  /\ blockIdx[r] <= Len(response[r])
  /\ LET b == response[r][blockIdx[r]]
     IN  /\ frames' = [frames EXCEPT ![r] = @ \o [i \in 1..Len(Yielded(b)) |-> Sse(Yielded(b)[i])]]
         /\ assistant_content' = [assistant_content EXCEPT ![r] = IF Kept(b) THEN Append(@, b) ELSE @]
         /\ tool_uses' = [tool_uses EXCEPT ![r] = IF Recorded(b) THEN Append(@, b) ELSE @]
  /\ blockIdx' = [blockIdx EXCEPT ![r] = @ + 1]
  /\ UNCHANGED <<clientVars, lifeVars, pc, calls, exit, richLeft, messages, claude_tools,
                 iteration, response, tool_results, toolIdx, warned>>
  /\ Resumed(r)

\* the walk is over: append the assistant message; break without tool uses
walk_end(r) ==
  /\ pc[r] = "walk"
  /\ UNCHANGED arrival
  /\ blockIdx[r] > Len(response[r])
  /\ messages' = [messages EXCEPT ![r] =
                    Append(Conversation(messages, r),
                           [role |-> "assistant", content |-> assistant_content[r]])]
  /\ IF NoToolUse(tool_uses[r])
       THEN /\ exit' = [exit EXCEPT ![r] = "break"]
            /\ pc' = [pc EXCEPT ![r] = "after_loop"]
            /\ UNCHANGED <<tool_results, toolIdx>>
       ELSE /\ tool_results' = [tool_results EXCEPT ![r] = NewToolResults(@)]
            /\ toolIdx' = [toolIdx EXCEPT ![r] = 1]
            /\ pc' = [pc EXCEPT ![r] = "tools"]
            /\ UNCHANGED exit
  /\ UNCHANGED <<clientVars, lifeVars, frames, calls, richLeft, claude_tools, iteration,
                 response, blockIdx, assistant_content, tool_uses, warned>>
  /\ Resumed(r)

\* "self.session.call_tool" on a cleared session: None has no such attribute
NoSessionUnnoticed(s) == FALSE
NoSession(s) == s = "None"

\* "await self.session.call_tool(tool_use.name, tool_use.input)": the request
\* goes out (on a cleared session the attribute access raises instead)
tool_issue(r) ==
  /\ AtToolLoop(r)
  /\ UNCHANGED arrival
  /\ toolIdx[r] <= Len(tool_uses[r])
  /\ IF NoSession(session)
       THEN /\ OnException(r, "NoneType")
            /\ UNCHANGED calls
       ELSE /\ calls' = [calls EXCEPT ![r] =
                 Append(@, [op |-> "call_tool", at |-> Len(frames[r]),
                            name |-> ToolUseAt(tool_uses[r], toolIdx[r]).name,
                            input |-> ToolUseAt(tool_uses[r], toolIdx[r]).input,
                            state |-> "pending", result |-> << >>])]
            /\ pc' = [pc EXCEPT ![r] = "call_tool"]
            /\ UNCHANGED <<session, frames, exit>>
  /\ UNCHANGED <<server_task, session_ready, lifeVars, richLeft, loopVars>>
  /\ Resumed(r)

\* call_tool returns (the result is recorded and its event yielded) or raises
tool_return(r) ==
  /\ pc[r] = "call_tool"
  /\ UNCHANGED arrival
  /\ \/ /\ ProviderAnswers
        /\ \E parts \in ProviderParts(r, ToolUseAt(tool_uses[r], toolIdx[r]).name) :
             LET tu == ToolUseAt(tool_uses[r], toolIdx[r])
                 result_text == ResultText(parts)
             IN  /\ tool_results' = [tool_results EXCEPT ![r] = Append(@, ToolResultBlock(tu, result_text))]
                 /\ frames' = [frames EXCEPT ![r] = Append(@, Sse(ToolResultEvent(tu, result_text)))]
                 /\ calls' = [calls EXCEPT ![r] =
                      [Settle(calls[r], "returned") EXCEPT ![Len(calls[r])].result = parts]]
        /\ toolIdx' = [toolIdx EXCEPT ![r] = @ + 1]
        /\ pc' = [pc EXCEPT ![r] = "tools"]
        /\ UNCHANGED <<session, exit>>
     \/ /\ OnException(r, "call_tool")
        /\ calls' = [calls EXCEPT ![r] = Settle(@, "raised")]
        /\ UNCHANGED <<tool_results, toolIdx>>
  /\ richLeft' = [richLeft EXCEPT ![r].tool = Spend(@)]
  /\ UNCHANGED <<server_task, session_ready, lifeVars, messages, claude_tools, iteration,
                 response, blockIdx, assistant_content, tool_uses, warned>>
  /\ Resumed(r)

\* every tool use is executed: append the user message, next iteration
tools_end(r) ==
  /\ pc[r] = "tools"
  /\ UNCHANGED arrival
  /\ toolIdx[r] > Len(tool_uses[r])
  /\ messages' = [messages EXCEPT ![r] =
                    Append(Conversation(messages, r),
                           [role |-> "user", content |-> tool_results[r]])]
  /\ pc' = [pc EXCEPT ![r] = "loop"]
  /\ UNCHANGED <<clientVars, lifeVars, frames, calls, exit, richLeft, claude_tools, iteration,
                 response, blockIdx, assistant_content, tool_uses, tool_results, toolIdx, warned>>
  /\ Resumed(r)

\* after the loop: the warning, then the adapter's final frame
after_loop(r) ==
  /\ pc[r] = "after_loop"
  /\ UNCHANGED arrival
  /\ warned' = [warned EXCEPT ![r] = AtLastIteration(iteration[r])]
  /\ frames' = [frames EXCEPT ![r] = EndFrames(@)]
  /\ pc' = [pc EXCEPT ![r] = "done"]
  /\ UNCHANGED <<clientVars, lifeVars, calls, exit, richLeft, messages, claude_tools, iteration,
                 response, blockIdx, assistant_content, tool_uses, tool_results, toolIdx>>
  /\ Resumed(r)

(***************************************************************************)
(* The endpoint and the consumer of the stream.                            *)
(***************************************************************************)
\* "if not os.getenv("ANTHROPIC_API_KEY")"
KeyNeverMissing(key) == FALSE
KeyMissing(key) == ~key

\* POST /explain-research-term: HTTPException(500) without the key, else a
\* StreamingResponse over the generator (which has not started yet)
explain_research_term(r) ==
  /\ pc[r] = "received"
  /\ \E key \in BOOLEAN :
       IF KeyMissing(key)
         THEN /\ pc' = [pc EXCEPT ![r] = "done"]
              /\ exit' = [exit EXCEPT ![r] = "http_500"]
              /\ conn' = [conn EXCEPT ![r].status = "500", ![r].key = key]
         ELSE /\ pc' = [pc EXCEPT ![r] = "idle"]
              /\ conn' = [conn EXCEPT ![r].status = "200", ![r].key = key]
              /\ UNCHANGED exit
  /\ UNCHANGED <<clientVars, lifeVars, arrival, frames, calls, richLeft, loopVars>>

\* the generator is suspended: in "await self.session...." or at a yield
Suspended(r) ==
  \/ pc[r] \in {"list_tools", "call_tool"}
  \/ pc[r] \in {"loop", "walk", "tools", "after_loop"} /\ conn[r].atYield

\* the consumer goes away mid-stream; the server learns of it while the
\* generator is suspended and cancels the task that iterates it
disconnect(r) ==
  /\ Suspended(r)
  /\ conn[r].consumer = "reading"
  /\ conn' = [conn EXCEPT ![r].consumer = "gone"]
  /\ UNCHANGED <<clientVars, lifeVars, pc, arrival, frames, calls, exit, richLeft, loopVars>>

\* CancelledError (GeneratorExit for a closed generator) is raised at the
\* suspension point; it is a BaseException, so "except Exception" lets it
\* pass: no frame is yielded and the generators end
OnCancelSwallowed(r) ==
  /\ exit' = [exit EXCEPT ![r] = "cancelled"]
  /\ UNCHANGED <<pc, frames>>
OnCancel(r) ==
  /\ exit' = [exit EXCEPT ![r] = "cancelled"]
  /\ pc' = [pc EXCEPT ![r] = "done"]
  /\ UNCHANGED frames

\* the cancellation reaches the generator
cancel_delivered(r) ==
  /\ conn[r].consumer = "gone"
  /\ OnCancel(r)
  /\ conn' = [conn EXCEPT ![r].consumer = "delivered", ![r].cut = Len(calls[r])]
  /\ UNCHANGED <<clientVars, lifeVars, arrival, calls, richLeft, loopVars>>

(***************************************************************************)
(* Specifications.                                                         *)
(***************************************************************************)
\* the private state of the requests before any of them has run
RunsBlank(model, tool) ==
  /\ arrival = [r \in Runs |-> [ready |-> FALSE, session |-> "unseen", stop |-> "none",
                                 ended |-> 0]]
  /\ frames = [r \in Runs |-> << >>]
  /\ messages = [r \in Runs |-> << >>]
  /\ claude_tools = [r \in Runs |-> << >>]
  /\ iteration = [r \in Runs |-> 0]
  /\ response = [r \in Runs |-> << >>]
  /\ blockIdx = [r \in Runs |-> 1]
  /\ assistant_content = [r \in Runs |-> << >>]
  /\ tool_uses = [r \in Runs |-> << >>]
  /\ tool_results = [r \in Runs |-> << >>]
  /\ toolIdx = [r \in Runs |-> 1]
  /\ calls = [r \in Runs |-> << >>]
  /\ exit = [r \in Runs |-> "none"]
  /\ warned = [r \in Runs |-> FALSE]
  /\ richLeft = [r \in Runs |-> [model |-> model, tool |-> tool]]

\* the exchange of a request: not received yet, or accepted by the endpoint
Exchange(accepted) ==
  [status |-> IF accepted THEN "200" ELSE "none", key |-> accepted,
   consumer |-> "reading", atYield |-> FALSE, cut |-> 0]

\* requests the endpoint has accepted, their streams not begun (admitted says
\* which runs a specification uses)
InitRuns(admitted, model, tool) ==
  /\ pc = [r \in Runs |-> IF r \in admitted THEN "idle" ELSE "off"]
  /\ conn = [r \in Runs |-> Exchange(r \in admitted)]
  /\ RunsBlank(model, tool)

\* the process after construction: one request, a terse model, the whole
\* lifecycle of the provider
Init ==
  /\ InitClient
  /\ ready = FALSE
  /\ task = "unborn"
  /\ lifespan = "init"
  /\ startPc = "idle"
  /\ elapsed = 0
  /\ stopPc = "idle"
  /\ stops = << >>
  /\ InitRuns({"r1"}, 0, 0)

Lifecycle ==
  \/ start_mcp_server
  \/ Tick
  \/ start_ready
  \/ start_timeout
  \/ run_server_connect
  \/ run_server_ready
  \/ run_server_fail
  \/ run_server_cancelled
  \/ \E caller \in {"lifespan", "other"} : stop_mcp_server(caller)
  \/ stop_resume

Request(r) ==
  \/ stream_begin(r)
  \/ list_tools_return(r)
  \/ model_call(r)
  \/ loop_exhausted(r)
  \/ walk_block(r)
  \/ walk_end(r)
  \/ tool_issue(r)
  \/ tool_return(r)
  \/ tools_end(r)
  \/ after_loop(r)

Next == Lifecycle \/ \E r \in Runs : Request(r)

Spec == Init /\ [][Next]_vars

\* the process while it serves (lifespan has yielded, the provider stays up):
\* one request against a model whose first answers are arbitrary
Serving ==
  /\ session = "ClientSession"
  /\ server_task = "Task"
  /\ session_ready = "Event"
  /\ ready = TRUE
  /\ task = "holding"
  /\ lifespan = "serving"
  /\ startPc = "returned"
  /\ elapsed = 0
  /\ stopPc = "idle"
  /\ stops = << >>

InitServing ==
  /\ Serving
  /\ InitRuns({"r1"}, RichCalls, 0)

NextLoop == \E r \in Runs : Request(r)

SpecLoop == InitServing /\ [][NextLoop]_vars

\* the process as the application runs it: lifespan alone starts and stops
\* the provider
NextApp ==
  \/ start_mcp_server
  \/ Tick
  \/ start_ready
  \/ start_timeout
  \/ run_server_connect
  \/ run_server_ready
  \/ run_server_fail
  \/ run_server_cancelled
  \/ stop_mcp_server("lifespan")
  \/ stop_resume
  \/ \E r \in Runs : Request(r)

\* that process, with every call of a request returning or raising in the end
\* and a consumer that keeps reading: a request that can take a step takes one
SpecLive == Init /\ [][NextApp]_vars /\ \A r \in Runs : WF_vars(Request(r))

\* the same, with a consumer that may go away mid-stream
NextDrop ==
  \E r \in Runs : Request(r) \/ disconnect(r) \/ cancel_delivered(r)

SpecDrop == InitServing /\ [][NextDrop]_vars

\* two requests side by side against a terse model
InitPair ==
  /\ Serving
  /\ InitRuns(Runs, 0, 0)

SpecPair == InitPair /\ [][NextLoop]_vars

\* one request from its arrival at the endpoint, the API key there or not
InitKey ==
  /\ Serving
  /\ pc = [r \in Runs |-> IF r = "r1" THEN "received" ELSE "off"]
  /\ conn = [r \in Runs |-> Exchange(FALSE)]
  /\ RunsBlank(RichCalls, 0)

NextKey == \E r \in Runs : explain_research_term(r) \/ Request(r)

SpecKey == InitKey /\ [][NextKey]_vars

\* one request against a provider whose first answers are arbitrary, and a
\* model that may ask it for a tool it does not have
InitTools ==
  /\ Serving
  /\ InitRuns({"r1"}, 0, RichCalls)

SpecTools == InitTools /\ [][NextLoop]_vars

(***************************************************************************)
(* Properties.                                                             *)
(***************************************************************************)
\* the calls of one kind a run has issued
CallsOf(r, op) == SelectSeq(calls[r], LAMBDA c : c.op = op)
ModelCalls(r) == Len(CallsOf(r, "create"))
ToolCalls(r) == Len(CallsOf(r, "call_tool"))
\* the frames of one type a run has yielded
FramesOf(fs, type) == SelectSeq(fs, LAMBDA f : f.data.type = type)
IsTerminal(f) == f.data.type \in {"done", "error"}
BlocksOf(blocks, type) == SelectSeq(blocks, LAMBDA b : b.type = type)

\* C1: a run never makes more than 10 model calls (loop iterations), whatever
\* the model answers.
C1_IterationBound ==
  \A r \in Runs : ModelCalls(r) <= max_iterations /\ iteration[r] <= max_iterations

\* a run whose model asked for tools in each of its 10 answers
C1_Witness ==
  \E r \in Runs : pc[r] = "done" /\ exit[r] = "exhausted" /\ ModelCalls(r) = max_iterations

\* C2: a stream that has ended holds exactly one terminal frame (done or
\* error), and it is its last frame; no stream holds a terminal frame anywhere
\* else.
C2_OneTerminalFrameLast ==
  \A r \in Runs :
    /\ \A i \in 1..Len(frames[r]) :
         IsTerminal(frames[r][i]) => i = Len(frames[r]) /\ pc[r] = "done"
    /\ pc[r] = "done" => /\ Len(frames[r]) >= 1
                         /\ IsTerminal(frames[r][Len(frames[r])])

\* a stream that ended with an error frame after other frames
C2_Witness ==
  \E r \in Runs :
    /\ pc[r] = "done"
    /\ Len(frames[r]) >= 3
    /\ frames[r][Len(frames[r])].data.type = "error"

\* the text frames a response's text blocks call for, in block order
TextFramesFor(blocks) ==
  LET texts == BlocksOf(blocks, "text")
  IN  [i \in 1..Len(texts) |-> [data |-> [type |-> "text", content |-> texts[i].text]]]

\* C3: a first response without a tool_use block gives one text event per text
\* block, in order, then the run ends after that one model call without any
\* tool call (an empty response: no text event at all); and a run goes past its
\* first iteration only when the first response held a tool_use block.
C3_TextOnlyFirstResponse ==
  \A r \in Runs :
    /\ ( /\ iteration[r] = 1
         /\ exit[r] # "raised"
         /\ pc[r] \notin {"walk"}
         /\ BlocksOf(response[r], "tool_use") = << >> )
       => /\ pc[r] \in {"after_loop", "done"}
          /\ exit[r] = "break"
          /\ ModelCalls(r) = 1
          /\ ToolCalls(r) = 0
          /\ frames[r] = TextFramesFor(response[r])
                           \o (IF pc[r] = "done" THEN << [data |-> [type |-> "done"]] >> ELSE << >>)
    /\ (iteration[r] = 1 /\ pc[r] = "walk" /\ BlocksOf(response[r], "tool_use") = << >>)
       => frames[r] = TextFramesFor(SubSeq(response[r], 1, blockIdx[r] - 1))
    /\ (iteration[r] >= 2 \/ ToolCalls(r) >= 1)
       => BlocksOf(messages[r][2].content, "tool_use") # << >>

\* a first response of two text blocks, streamed and ended
C3_Witness ==
  \E r \in Runs :
    /\ pc[r] = "done"
    /\ iteration[r] = 1
    /\ Len(response[r]) = 2
    /\ \A k \in 1..2 : response[r][k].type = "text"
    /\ Len(frames[r]) = 3

IsPrefix(s, t) == Len(s) <= Len(t) /\ SubSeq(t, 1, Len(s)) = s
ToolNamesIn(fs, type) ==
  LET sel == FramesOf(fs, type) IN [i \in 1..Len(sel) |-> sel[i].data.tool_name]
BlockNames(blocks) ==
  LET sel == BlocksOf(blocks, "tool_use") IN [i \in 1..Len(sel) |-> sel[i].name]
\* the frames yielded during the j-th iteration: from its model call to the next
IterationFrames(r, j) ==
  LET creates == CallsOf(r, "create")
  IN  SubSeq(frames[r], creates[j].at + 1,
             IF j < Len(creates) THEN creates[j + 1].at ELSE Len(frames[r]))
\* the j-th iteration has run to its end
IterationComplete(r, j) ==
  \/ j < iteration[r]
  \/ pc[r] = "loop"
  \/ pc[r] \in {"after_loop", "done"} /\ exit[r] \in {"break", "exhausted"}

\* C4: in every iteration the tool_result events so far carry, in order, the
\* tool names of the first tool_use events of that iteration; an iteration that
\* has run to its end has as many tool_result events as its response has
\* tool_use blocks (N results for N tool uses, k-th for k-th).
C4_ResultsMatchToolUses ==
  \A r \in Runs : \A j \in 1..ModelCalls(r) :
    LET seg == IterationFrames(r, j)
        uses == ToolNamesIn(seg, "tool_use")
        results == ToolNamesIn(seg, "tool_result")
    IN  /\ IsPrefix(results, uses)
        /\ IterationComplete(r, j) => results = uses
        /\ Len(messages[r]) >= 2 * j => uses = BlockNames(messages[r][2 * j].content)
        /\ (j = iteration[r] /\ Len(messages[r]) >= 2 * j) => uses = BlockNames(response[r])

\* an iteration with two tool uses of different tools, run to its end
C4_Witness ==
  \E r \in Runs :
    /\ pc[r] = "loop"
    /\ iteration[r] = 1
    /\ Len(tool_uses[r]) = 2
    /\ tool_uses[r][1].name # tool_uses[r][2].name
    /\ Len(FramesOf(frames[r], "tool_result")) = 2

\* the conversation as the loop keeps it
ConversationShape(r) ==
  LET ms == messages[r]
      uses(i) == BlocksOf(ms[i].content, "tool_use")
  IN  /\ \A i \in 1..Len(ms) : ms[i].role = (IF i % 2 = 1 THEN "user" ELSE "assistant")
      /\ \A i \in 1..Len(ms) :
           (ms[i].role = "assistant" /\ uses(i) # << >>) =>
             IF i < Len(ms)
               THEN /\ ms[i + 1].role = "user"
                    /\ Len(ms[i + 1].content) = Len(uses(i))
                    /\ \A k \in 1..Len(uses(i)) :
                         /\ ms[i + 1].content[k].type = "tool_result"
                         /\ ms[i + 1].content[k].tool_use_id = uses(i)[k].id
               ELSE pc[r] \in {"tools", "call_tool"} \/ exit[r] = "raised"
      /\ pc[r] = "walk" => Len(ms) = 2 * iteration[r] - 1
      /\ pc[r] \in {"tools", "call_tool"} => Len(ms) = 2 * iteration[r]
      /\ pc[r] = "loop" => Len(ms) = 2 * iteration[r] + 1

\* C5: an assistant message with k >= 1 tool uses is followed at once by one
\* user message with the k matching tool results, in order (until that message
\* is appended the run is executing those tool uses, or has failed doing so);
\* an iteration adds one assistant and one user message; messages already in
\* the conversation are never changed or removed.
C5_Conversation ==
  /\ [](\A r \in Runs : ConversationShape(r))
  /\ [][\A r \in Runs : IsPrefix(messages[r], messages'[r])]_vars

\* a conversation in which two tool uses were answered by one user message
C5_Witness ==
  \E r \in Runs :
    /\ Len(messages[r]) >= 3
    /\ Len(BlocksOf(messages[r][2].content, "tool_use")) = 2
    /\ Len(messages[r][3].content) = 2

\* C6 (as claimed): a request whose stream begins while the session is not
\* ready gets the single error frame and nothing else, and neither list_tools,
\* the model nor call_tool is called for it.
C6_NotReadyAsClaimed ==
  \A r \in Runs :
    (pc[r] \notin {"off", "idle"} /\ ~arrival[r].ready) =>
      /\ pc[r] = "done"
      /\ Len(frames[r]) = 1
      /\ frames[r][1].data.type = "error"
      /\ calls[r] = << >>

\* C7: once a model call or a provider call has raised, the stream has ended
\* with exactly one error frame, its last; there is no done frame; and every
\* call of the run was issued before that frame (none after the failure).
C7_FailureEndsRun ==
  \A r \in Runs :
    exit[r] = "raised" =>
      /\ pc[r] = "done"
      /\ Len(FramesOf(frames[r], "error")) = 1
      /\ frames[r][Len(frames[r])].data.type = "error"
      /\ FramesOf(frames[r], "done") = << >>
      /\ \A i \in 1..Len(calls[r]) : calls[r][i].at < Len(frames[r])

\* the first of two tool uses raised: the second one was never executed
C7_Witness ==
  \E r \in Runs :
    /\ exit[r] = "raised"
    /\ Len(tool_uses[r]) = 2
    /\ toolIdx[r] = 1
    /\ ToolCalls(r) = 1

\* C8: start_mcp_server fails only when the timeout has elapsed without the
\* readiness signal, and then the background task has been cancelled (or had
\* already failed) and lifespan has failed; lifespan serves only after
\* readiness was signalled.
C8_StartTimeoutFails ==
  /\ startPc = "raised" => /\ ~ready
                           /\ elapsed = StartTimeout
                           /\ task \notin Running
                           /\ lifespan = "failed"
  /\ lifespan \in {"serving", "stopping", "exited", "crashed"} =>
       startPc = "returned" /\ ready
  /\ lifespan = "failed" => startPc = "raised"

\* the timeout struck during the handshake: the task is being cancelled
C8_Witness ==
  /\ startPc = "raised"
  /\ task = "cancelling"
  /\ session = "ClientSession"

\* C9 (as claimed, for the calls made after a failed start_mcp_server): each
\* such call of stop_mcp_server returns without raising, leaves session and
\* session_ready cleared, and a repeated call ends as the one before it.
C9_StopSafeAsClaimed ==
  /\ \A i \in 1..Len(stops) :
       stops[i].start = "raised" => stops[i].outcome # "raised"
  /\ (Len(stops) >= 1 /\ stopPc = "idle" /\ stops[Len(stops)].start = "raised") =>
       session = "None" /\ session_ready = "None"
  /\ \A i \in 1..Len(stops) - 1 :
       (stops[i].start = "raised" /\ stops[i + 1].outcome # "pending") =>
         stops[i + 1].outcome = stops[i].outcome

\* C10: a run that has used up its 10 iterations made 10 model calls that each
\* asked for a tool, every event of those iterations is in the stream, and no
\* frame of the stream is an error frame.
C10_BoundIsSilent ==
  \A r \in Runs :
    exit[r] = "exhausted" =>
      /\ ModelCalls(r) = max_iterations
      /\ FramesOf(frames[r], "error") = << >>
      /\ \A j \in 1..max_iterations :
           LET seg == IterationFrames(r, j)
           IN  /\ FramesOf(seg, "tool_use") # << >>
               /\ Len(FramesOf(seg, "tool_result")) = Len(FramesOf(seg, "tool_use"))
      /\ Len(FramesOf(frames[r], "tool_result")) = ToolCalls(r)

\* the bound was reached after ten executed tool uses
C10_Witness ==
  \E r \in Runs :
    /\ exit[r] = "exhausted"
    /\ Len(FramesOf(frames[r], "tool_result")) = max_iterations

\* the types of the frames of a stream, in order
TypesOf(fs) == [i \in 1..Len(fs) |-> fs[i].data.type]

\* C11 (as claimed): a run that hit the 10-iteration bound has no done frame in
\* its stream.
C11_NoDoneAsClaimed ==
  \A r \in Runs :
    exit[r] = "exhausted" => FramesOf(frames[r], "done") = << >>

\* C11 (amended): a run that hit the 10-iteration bound and has ended has
\* logged the warning and its stream ends with exactly one done frame, which
\* directly follows the last tool_result frame.
C11_DoneAfterBound ==
  \A r \in Runs :
    (exit[r] = "exhausted" /\ pc[r] = "done") =>
      /\ warned[r]
      /\ Len(frames[r]) >= 2
      /\ frames[r][Len(frames[r])] = DoneFrame
      /\ frames[r][Len(frames[r]) - 1].data.type = "tool_result"
      /\ Len(FramesOf(frames[r], "done")) = 1

\* the stream of a run that hit the bound, complete: ten tool uses, ten
\* results, the warning and the final frame
C11_Witness ==
  \E r \in Runs :
    /\ exit[r] = "exhausted"
    /\ warned[r]
    /\ Len(frames[r]) = 2 * max_iterations + 1
    /\ TypesOf(frames[r])[Len(frames[r])] = "done"

\* C12: once the consumer's disconnect has been delivered to a run, the run has
\* ended and makes no further model call and no further provider call: its
\* calls are those it had issued when the disconnect was delivered.
C12_NoCallAfterDisconnect ==
  \A r \in Runs :
    conn[r].consumer = "delivered" =>
      /\ pc[r] = "done"
      /\ Len(calls[r]) = conn[r].cut
      /\ FramesOf(frames[r], "done") = << >>

\* the disconnect came in the first iteration, one of two tool uses executed
\* and nine iterations still to go
C12_Witness ==
  \E r \in Runs :
    /\ conn[r].consumer = "delivered"
    /\ ModelCalls(r) = 1
    /\ Len(tool_uses[r]) = 2
    /\ ToolCalls(r) = 1

\* the blocks of a conversation, whatever the message they are in
BlocksIn(msgs) == UNION {{msgs[i].content[k] : k \in 1..Len(msgs[i].content)} : i \in 1..Len(msgs)}

\* the request a block belongs to: the term of a prompt, the conversation a
\* model answer was given for, the tool use a result answers
OwnerOf(b) ==
  CASE b.type = "prompt" -> b.term
    [] b.type = "text" -> b.text[2][1]
    [] b.type = "tool_use" -> b.id[2][1]
    [] b.type = "tool_result" -> b.tool_use_id[2][1]

\* a conversation that holds the run's own prompt first and then only blocks
\* of the run's own model calls and tool calls
OwnConversation(r) ==
  /\ messages[r] # << >> => messages[r][1] = InitialMessages(Term(r))[1]
  /\ \A b \in BlocksIn(messages[r]) : OwnerOf(b) = Term(r)
  /\ \A i \in 1..Len(messages[r]) : \A k \in 1..Len(messages[r][i].content) :
       LET b == messages[r][i].content[k]
       IN  b.type = "tool_result" =>
             \E c \in 1..Len(calls[r]) :
               /\ calls[r][c].op = "call_tool"
               /\ calls[r][c].state = "returned"
               /\ <<"input">> \o Tail(b.tool_use_id) = calls[r][c].input

\* C13: with two requests running side by side, each conversation holds only
\* the run's own prompt, the blocks of its own model answers and the results of
\* its own tool calls; the conversations share no block, and a step that
\* changes one conversation leaves the other as it was.
C13_PrivateConversations ==
  /\ [](\A r \in Runs : OwnConversation(r))
  /\ [](\A r, q \in Runs : r # q => BlocksIn(messages[r]) \cap BlocksIn(messages[q]) = {})
  /\ [][\A r, q \in Runs :
         (r # q /\ messages'[r] # messages[r]) => messages'[q] = messages[q]]_vars

\* both requests are in the middle of their loops, each with tool results in
\* its conversation
C13_Witness ==
  /\ \A r \in Runs : Len(messages[r]) >= 3 /\ pc[r] \notin {"idle", "done"}
  /\ pc["r1"] # pc["r2"]

\* the calls a run has issued since its latest model call
SinceCreate(r) ==
  LET creates == {i \in 1..Len(calls[r]) : calls[r][i].op = "create"}
      last == IF creates = {} THEN Len(calls[r])
              ELSE CHOOSE i \in creates : \A j \in creates : j <= i
  IN  SubSeq(calls[r], last + 1, Len(calls[r]))

\* C14: a run has at most one external call outstanding, and it is the one
\* issued last (so every call is issued after all earlier ones have ended: the
\* next tool call after the previous one, the next model call after the tool
\* calls of the iteration before); the tool calls of an iteration are the tool
\* uses of the model's response, in the order of the response.
C14_OneCallAtATime ==
  \A r \in Runs :
    /\ \A i \in 1..Len(calls[r]) :
         calls[r][i].state = "pending" => i = Len(calls[r])
    /\ LET asked == BlocksOf(response[r], "tool_use")
           issued == SinceCreate(r)
       IN  /\ Len(issued) <= Len(asked)
           /\ \A k \in 1..Len(issued) :
                /\ issued[k].op = "call_tool"
                /\ issued[k].name = asked[k].name
                /\ issued[k].input = asked[k].input

\* the second tool call of an iteration is outstanding, the first has returned
C14_Witness ==
  \E r \in Runs :
    /\ pc[r] = "call_tool"
    /\ Len(SinceCreate(r)) = 2
    /\ SinceCreate(r)[1].state = "returned"
    /\ SinceCreate(r)[2].state = "pending"
    /\ SinceCreate(r)[1].name # SinceCreate(r)[2].name

\* C15: a request that the endpoint has handled without the API key being
\* configured was answered with status 500 and is over: it has no stream frame,
\* no conversation, and no list_tools, model or tool call was made for it.
\* Status 500 is given for no other reason.
C15_NoKeyNoStream ==
  \A r \in Runs :
    /\ (conn[r].status # "none" /\ ~conn[r].key) =>
         /\ conn[r].status = "500"
         /\ pc[r] = "done"
         /\ frames[r] = << >>
         /\ calls[r] = << >>
         /\ messages[r] = << >>
    /\ conn[r].status = "500" => ~conn[r].key

\* the request was refused by the endpoint
C15_Witness ==
  \E r \in Runs :
    /\ conn[r].status = "500"
    /\ exit[r] = "http_500"
    /\ session = "ClientSession"

\* the tool calls of a run for a tool the provider does not list
UnknownCalls(r) ==
  {i \in 1..Len(calls[r]) :
     calls[r][i].op = "call_tool" /\ calls[r][i].name \notin ToolNames}

\* C16: a tool call for a name the provider does not list never comes back as
\* an ordinary result: it comes back as the provider's "Unknown tool" failure,
\* and the frame that follows the call in the stream is the tool_result frame
\* of that tool use carrying it, or it raises and that frame is the error frame
\* that ends the stream.
C16_UnknownToolSurfaces ==
  \A r \in Runs : \A i \in UnknownCalls(r) :
    LET c == calls[r][i]
    IN  /\ c.state = "returned" =>
             /\ c.result = UnknownParts(c.name)
             /\ Len(frames[r]) > c.at
             /\ frames[r][c.at + 1].data.type = "tool_result"
             /\ frames[r][c.at + 1].data.tool_name = c.name
             /\ frames[r][c.at + 1].data.content = <<"Unknown tool: ", c.name>>
        /\ c.state = "raised" =>
             /\ Len(frames[r]) = c.at + 1
             /\ frames[r][c.at + 1].data.type = "error"

\* an answer asked for a listed tool and then for an unknown one; both calls
\* have returned
C16_Witness ==
  \E r \in Runs : \E i \in UnknownCalls(r) :
    /\ calls[r][i].state = "returned"
    /\ i > 1
    /\ calls[r][i - 1].op = "call_tool"
    /\ calls[r][i - 1].name \in ToolNames
    /\ pc[r] = "tools"

\* C17: the declarations a run passes to the model are the provider's tool
\* list translated one for one: as many, in the same order, each with the
\* name and the input schema of the tool at its position.
C17_DeclarationsMatch ==
  \A r \in Runs :
    messages[r] # << >> =>
      /\ Len(claude_tools[r]) = Len(McpTools)
      /\ \A i \in 1..Len(McpTools) :
           /\ claude_tools[r][i].name = McpTools[i].name
           /\ claude_tools[r][i].input_schema = McpTools[i].inputSchema

\* the declarations of the provider's two tools have been passed to the model
C17_Witness ==
  \E r \in Runs :
    /\ Len(claude_tools[r]) = 2
    /\ claude_tools[r][1].name # claude_tools[r][2].name
    /\ ModelCalls(r) >= 1

\* the frame position at which a run issued its latest model call
LastCreateAt(r) ==
  LET creates == {i \in 1..Len(calls[r]) : calls[r][i].op = "create"}
  IN  calls[r][CHOOSE i \in creates : \A j \in creates : j <= i].at

\* the text and tool_use blocks of a response, in order
Spoken(blocks) == SelectSeq(blocks, LAMBDA b : b.type \in {"text", "tool_use"})

\* C18: when the first tool call of an iteration is issued, the frames since
\* the model call are the text and tool_use events of the whole response, in
\* block order; the frame after a tool call that has returned is its
\* tool_result, and the next tool call is issued right after that frame; while
\* a tool call is outstanding its result is not in the stream. A finished run
\* of one tool-using answer and one text answer has the frames tool_use,
\* tool_result, text, done.
C18_EventOrder ==
  \A r \in Runs :
    /\ SinceCreate(r) # << >> =>
         LET issued == SinceCreate(r)
             spoken == Spoken(response[r])
             from == LastCreateAt(r)
         IN  /\ issued[1].at = from + Len(spoken)
             /\ \A k \in 1..Len(spoken) :
                  /\ frames[r][from + k].data.type = spoken[k].type
                  /\ spoken[k].type = "text" =>
                       frames[r][from + k].data.content = spoken[k].text
                  /\ spoken[k].type = "tool_use" =>
                       frames[r][from + k].data.tool_name = spoken[k].name
             /\ \A k \in 1..Len(issued) :
                  /\ issued[k].state = "pending" => Len(frames[r]) = issued[k].at
                  /\ issued[k].state = "returned" =>
                       /\ frames[r][issued[k].at + 1].data.type = "tool_result"
                       /\ frames[r][issued[k].at + 1].data.tool_name = issued[k].name
                       /\ k < Len(issued) => issued[k + 1].at = issued[k].at + 1
    /\ ( /\ pc[r] = "done"
         /\ exit[r] = "break"
         /\ Len(messages[r]) = 4
         /\ Len(messages[r][2].content) = 1
         /\ messages[r][2].content[1].type = "tool_use"
         /\ Len(messages[r][4].content) = 1
         /\ messages[r][4].content[1].type = "text" ) =>
         TypesOf(frames[r]) = <<"tool_use", "tool_result", "text", "done">>

\* the run of the scenario: one search, then the explanation
C18_Witness ==
  \E r \in Runs :
    /\ pc[r] = "done"
    /\ TypesOf(frames[r]) = <<"tool_use", "tool_result", "text", "done">>
    /\ ModelCalls(r) = 2
    /\ ToolCalls(r) = 1

\* the text-bearing parts of a tool result, in order
TextsOf(parts) == SelectSeq(parts, LAMBDA p : "text" \in DOMAIN p)

\* the texts of the first n of them, one after the other
RECURSIVE Joined(_, _)
Joined(ts, n) == IF n = 0 THEN << >> ELSE Joined(ts, n - 1) \o ts[n].text

\* the tool_result blocks a run has made: those of the conversation and those
\* of the iteration under way
ResultBlocks(r) ==
  {b \in BlocksIn(messages[r]) : b.type = "tool_result"}
    \cup {tool_results[r][k] : k \in 1..Len(tool_results[r])}

\* C19: the content of the tool_result event of a returned tool call, and of
\* the ToolResult block that answers the tool use, is the texts of the text
\* parts of the result joined in order, parts without text skipped (so it is
\* empty when there is no text part); such a result never ends the run: only a
\* call that raised does, and once the next model call is made the block is in
\* a user message of the conversation.
C19_ResultContent ==
  \A r \in Runs :
    /\ \A i \in 1..Len(calls[r]) :
         LET c == calls[r][i]
         IN  (c.op = "call_tool" /\ c.state = "returned") =>
               LET content == Joined(TextsOf(c.result), Len(TextsOf(c.result)))
                   block == [type |-> "tool_result",
                             tool_use_id |-> <<"toolu">> \o Tail(c.input),
                             content |-> content]
               IN  /\ frames[r][c.at + 1].data.type = "tool_result"
                   /\ frames[r][c.at + 1].data.content = content
                   /\ TextsOf(c.result) = << >> => frames[r][c.at + 1].data.content = << >>
                   /\ block \in ResultBlocks(r)
                   /\ (i < Len(calls[r]) /\ calls[r][i + 1].op = "create") =>
                        \E m \in 1..Len(messages[r]) :
                          /\ messages[r][m].role = "user"
                          /\ \E k \in 1..Len(messages[r][m].content) :
                               messages[r][m].content[k] = block
    /\ exit[r] = "raised" => calls[r][Len(calls[r])].state = "raised"

\* a tool result with no text part gave an empty tool_result event, and the
\* run went on to its next model call
C19_Witness ==
  \E r \in Runs : \E i \in 1..Len(calls[r]) - 1 :
    /\ calls[r][i].op = "call_tool"
    /\ calls[r][i].state = "returned"
    /\ calls[r][i].result = << ImagePart >>
    /\ frames[r][calls[r][i].at + 1].data.content = << >>
    /\ calls[r][i + 1].op = "create"
    /\ calls[r][i + 1].state = "returned"

\* the blocks of one type in message m of a conversation
TypedIn(msgs, m, type) ==
  {msgs[m].content[k] : k \in {j \in 1..Len(msgs[m].content) : msgs[m].content[j].type = type}}

\* the number of blocks of one type in the first n messages of a conversation
RECURSIVE CountOf(_, _, _)
CountOf(msgs, n, type) ==
  IF n = 0 THEN 0
  ELSE CountOf(msgs, n - 1, type) + Len(BlocksOf(msgs[n].content, type))

\* C20: in a run's conversation every ToolResult block answers a ToolUse block
\* of an earlier message (its tool_use_id is that block's id), and no two
\* ToolResult blocks answer the same id.
C20_ResultsReferToUses ==
  \A r \in Runs :
    LET msgs == messages[r]
        answered == UNION {{b.tool_use_id : b \in TypedIn(msgs, m, "tool_result")} :
                             m \in 1..Len(msgs)}
    IN  /\ \A m \in 1..Len(msgs) : \A b \in TypedIn(msgs, m, "tool_result") :
             \E u \in 1..(m - 1) : \E a \in TypedIn(msgs, u, "tool_use") :
               a.id = b.tool_use_id
        /\ Cardinality(answered) = CountOf(msgs, Len(msgs), "tool_result")

\* a conversation with the results of two iterations, the first of them with
\* two tool uses
C20_Witness ==
  \E r \in Runs :
    /\ Len(messages[r]) >= 5
    /\ CountOf(messages[r], Len(messages[r]), "tool_result") >= 3
    /\ messages[r][5].role = "user"

\* C21: a step of a request (one that changes anything private to a run)
\* leaves session, server_task and session_ready as they are, and the provider
\* task and its readiness too; a step that changes one of the three attributes
\* is a step of start_mcp_server, _run_server or stop_mcp_server and changes
\* nothing of any run.
C21_RequestsLeaveSession ==
  [][ /\ runVars' # runVars =>
           /\ UNCHANGED <<session, server_task, session_ready>>
           /\ UNCHANGED <<task, ready>>
      /\ clientVars' # clientVars =>
           /\ runVars' = runVars
           /\ \/ startPc' # startPc
              \/ task' # task
              \/ stops' # stops
              \/ stopPc' # stopPc ]_vars

\* a request has ended on its error path while the provider serves: the
\* session is still there
C21_Witness ==
  \E r \in Runs :
    /\ exit[r] = "raised"
    /\ arrival[r].ready
    /\ session = "ClientSession"
    /\ session_ready = "Event"
    /\ lifespan = "serving"

\* C22: with every model call and provider call returning or raising in the
\* end and the consumer reading on, every request that has arrived gets to
\* the end of its stream, whose last frame is the terminal frame.
C22_StreamEnds ==
  \A r \in Runs :
    (pc[r] # "off") ~>
      (/\ pc[r] = "done"
       /\ frames[r] # << >>
       /\ IsTerminal(frames[r][Len(frames[r])]))

\* a stream that took all ten iterations has ended
C22_Witness ==
  \E r \in Runs :
    /\ pc[r] = "done"
    /\ iteration[r] = max_iterations
    /\ IsTerminal(frames[r][Len(frames[r])])
    /\ lifespan = "serving"

\* whether, when run r began, a stop_mcp_server call had ended that was made
\* once start_mcp_server had returned (the model makes one start at most, so
\* there was no start since)
StoppedAfterStart(r) ==
  /\ arrival[r].ended >= 1
  /\ stops[arrival[r].ended].start = "returned"

\* C23 (as claimed, for stop calls made after a successful start): a request
\* whose stream began after such a stop_mcp_server call had ended (returned or
\* raised), with no start since, has the single 'MCP server not initialized'
\* error frame as its stream and made no list_tools, model or tool call.
C23_AfterStopAsClaimed ==
  \A r \in Runs :
    (pc[r] \notin {"off", "received", "idle"} /\ StoppedAfterStart(r)) =>
      /\ pc[r] = "done"
      /\ exit[r] = "not_ready"
      /\ frames[r] = << ErrorFrame("MCP server not initialized") >>
      /\ calls[r] = << >>

\* the run's stream ended with the error frame of a tool call that found
\* the session cleared ('NoneType' object has no attribute 'call_tool')
EndedCleared(r) ==
  /\ exit[r] = "raised"
  /\ frames[r] # << >>
  /\ frames[r][Len(frames[r])].data.type = "error"
  /\ frames[r][Len(frames[r])] = ErrorFrame(<<"Error processing request: ", "NoneType">>)

\* C24: when a run in flight comes to call a tool and the session has been
\* cleared, its step issues no call and ends the stream with an error frame;
\* a stream that ended that way began with a session, has exactly one error
\* frame, its last, and no done frame.
C24_ClearedSessionEndsRun ==
  /\ [][\A r \in Runs :
          ( /\ pc[r] = "tools"
            /\ toolIdx[r] <= Len(tool_uses[r])
            /\ session = "None"
            /\ <<pc[r], calls[r], frames[r]>>' # <<pc[r], calls[r], frames[r]>> ) =>
              /\ pc'[r] = "done"
              /\ calls'[r] = calls[r]
              /\ Len(frames'[r]) = Len(frames[r]) + 1
              /\ SubSeq(frames'[r], 1, Len(frames[r])) = frames[r]
              /\ EndedCleared(r)']_vars
  /\ [](\A r \in Runs :
          EndedCleared(r) =>
             /\ pc[r] = "done"
             /\ arrival[r].session = "ClientSession"
             /\ Len(FramesOf(frames[r], "error")) = 1
             /\ FramesOf(frames[r], "done") = << >>)

\* stop_mcp_server returned while a run was between two tool-using
\* iterations; the run's next tool call ended its stream
C24_Witness ==
  \E r \in Runs :
    /\ EndedCleared(r)
    /\ ToolCalls(r) >= 1
    /\ stops # << >>
    /\ stops[1].outcome = "returned"
    /\ session = "None"

\* C25 (as claimed): of the runs whose loop has ended, the warning has been
\* logged for exactly those that exhausted the 10-iteration bound; a run that
\* ended because a model response held no tool_use block has not logged it.
C25_WarningAsClaimed ==
  \A r \in Runs :
    (pc[r] = "done" /\ exit[r] \in {"break", "exhausted"}) =>
      (warned[r] <=> exit[r] = "exhausted")

====
